---- MODULE Spec2Model ----
(***************************************************************************)
(* Model of extract_health_values (OCR_Flask.py): the clinical value       *)
(* extraction over the recognised text of one document.                    *)
(*                                                                         *)
(* A Python str is a sequence of one-character strings.  Offsets into a    *)
(* string are 0-based as in Python (m.start(), m.end()): offset p lies     *)
(* between s[p] and s[p+1] of the 1-based sequence s.  An optional value   *)
(* (a regex match or None, a result value or None) is a sequence of        *)
(* length 0 (None) or 1.                                                   *)
(***************************************************************************)
EXTENDS Integers, Sequences, FiniteSets, TLC

\* ------------------------------------------------------------------------
\* Characters and the classes the regular expressions use
\* ------------------------------------------------------------------------

UpperSeq ==
  <<"A","B","C","D","E","F","G","H","I","J","K","L","M",
    "N","O","P","Q","R","S","T","U","V","W","X","Y","Z">>

LowerSeq ==
  <<"a","b","c","d","e","f","g","h","i","j","k","l","m",
    "n","o","p","q","r","s","t","u","v","w","x","y","z">>

Uppers == {UpperSeq[j] : j \in DOMAIN UpperSeq}

Lowers == {LowerSeq[j] : j \in DOMAIN LowerSeq}

Digits == {"0","1","2","3","4","5","6","7","8","9"}

\* [.,] of num_pat
Separators == {".", ","}

\* \s restricted to the characters of the model's inputs
Whitespace == {" ", "\t", "\n", "\r"}

\* the line boundaries of str.splitlines() among the model's characters
LineBreaks == {"\n", "\r"}

\* \w : alphanumerics and the underscore
WordChars == Uppers \cup Lowers \cup Digits \cup {"_"}

IsWord(c) == c \in WordChars

ToLower == [c \in Uppers |-> LowerSeq[CHOOSE j \in DOMAIN UpperSeq : UpperSeq[j] = c]]

\* re.IGNORECASE compares characters up to letter case
Fold(c) == IF c \in Uppers THEN ToLower[c] ELSE c

None == <<>>

Some(v) == <<v>>

\* s[a:b] of Python, 0-based offsets, a <= b
Slice(s, a, b) == SubSeq(s, a + 1, b)

\* \b at offset p of s: exactly one of the neighbours is a word character
IsBoundary(s, p) ==
  LET before == p >= 1 /\ IsWord(s[p])
      after  == p < Len(s) /\ IsWord(s[p + 1])
  IN  before # after

\* number of consecutive characters of class C starting at offset p
RECURSIVE Run(_, _, _)
Run(s, p, C) ==
  IF p < Len(s) /\ s[p + 1] \in C THEN 1 + Run(s, p + 1, C) ELSE 0

DigitRun(s, p) == Run(s, p, Digits)

\* ------------------------------------------------------------------------
\* The metric patterns.  Each entry is one key of the patterns dict, in the
\* dict's order; alts lists the alternatives of \b(?:a1|a2|...)\b in their
\* order.  An alternative is a sequence of elements: a one-character
\* string is that literal character (matched ignoring case), "\\s*" is
\* the element \s* .
\* ------------------------------------------------------------------------

patterns ==
  << [key |-> "Plasma Glucose", alts |-> <<
        <<"P","l","a","s","m","a","\\s*","G","l","u","c","o","s","e">>,
        <<"P","l","a","s","m","a","\\s*","G","l","u">>,
        <<"G","l","u","\\s*","(","P","l","a","s","m","a",")">>,
        <<"G","l","u","c","o","s","e",",","\\s*","P","l","a","s","m","a">>,
        <<"P","-","G","l","u","c","o","s","e">>,
        <<"P","l","a","z","m","a","\\s*","G","l","u","c","o","s","e">>,
        <<"P","l","a","s","m","a","\\s*","G","l","u","k","o","s","e">> >>],
     [key |-> "HbA1c", alts |-> <<
        <<"H","b","A","1","c">>,
        <<"A","1","c">>,
        <<"H","b","A","i","c">>,
        <<"H","b","A","I","c">>,
        <<"H","6","A","1","c">>,
        <<"H","b","A","l","c">>,
        <<"G","l","y","c","o","s","y","l","a","t","e","d"," ","H","e","m","o","g","l","o","b","i","n">>,
        <<"H","g","b","A","1","c">>,
        <<"H","e","m","o","g","l","o","b","i","n"," ","A","1","c">>,
        <<"H","b","A","1","C">>,
        <<"H","B","A","1","c">>,
        <<"H","e","m","o","g","l","o","b","e","n"," ","A","1","c">> >>],
     [key |-> "HDL", alts |-> <<
        <<"H","D","L">>,
        <<"H","D","L","-","C">>,
        <<"H","i","g","h","-","d","e","n","s","i","t","y"," ","L","i","p","o","p","r","o","t","e","i","n">>,
        <<"H","D","L","c">> >>],
     [key |-> "LDL", alts |-> <<
        <<"L","D","L">>,
        <<"L","D","L","-","C">>,
        <<"L","o","w","-","d","e","n","s","i","t","y"," ","L","i","p","o","p","r","o","t","e","i","n">>,
        <<"L","D","L","c">> >>],
     [key |-> "Triglycerides", alts |-> <<
        <<"T","r","i","g","l","y","c","e","r","i","d","e","s">>,
        <<"T","r","i","g","l","y","c","e","r","i","d","e">>,
        <<"T","r","i","g","s">>,
        <<"T","r","i","g">> >>],
     [key |-> "Albumin", alts |-> <<
        <<"S","e","r","u","m"," ","A","l","b","u","m","i","n">>,
        <<"A","l","b","u","m","i","n">>,
        <<"A","l","b","m">>,
        <<"A","l","b","u","m","n">>,
        <<"A","l","b","m","i","n">> >>],
     [key |-> "Cholesterol", alts |-> <<
        <<"T","o","t","a","l"," ","C","h","o","l","e","s","t","e","r","o","l">>,
        <<"C","h","o","l","e","s","t","e","r","o","l">>,
        <<"C","h","o","l","e","s","t","r","o","l">>,
        <<"C","h","o","l">>,
        <<"T","o","t"," ","C","h","o","l">> >>],
     [key |-> "BMI", alts |-> <<
        <<"B","M","I">>,
        <<"B","o","d","y"," ","M","a","s","s"," ","I","n","d","e","x">>,
        <<"B",".","M",".","I",".">> >>],
     [key |-> "Blood Pressure", alts |-> <<
        <<"B","l","o","o","d"," ","P","r","e","s","s","u","r","e">>,
        <<"B","P">>,
        <<"B",".","P",".">>,
        <<"B","l","o","o","d","P","r","e","s","s","u","r","e">> >>],
     [key |-> "TSH", alts |-> <<
        <<"T","S","H">>,
        <<"T","h","y","r","o","i","d"," ","S","t","i","m","u","l","a","t","i","n","g"," ","H","o","r","m","o","n","e">>,
        <<"T",".","S",".","H",".">>,
        <<"T","h","y","r","o","t","r","o","p","i","n">>,
        <<"T","H","S">>,
        <<"T","y","r","o","i","d"," ","S","t","i","m","u","l","a","t","i","n","g"," ","H","o","r","m","o","n","e">> >>],
     [key |-> "LDH", alts |-> <<
        <<"L","D","H">>,
        <<"L","D">>,
        <<"L","a","c","t","a","t","e"," ","D","e","h","y","d","r","o","g","e","n","a","s","e">>,
        <<"L","D"," ","V","a","l","u","e">>,
        <<"L","H","D">>,
        <<"L","a","c","t","a","t","e"," ","D","e","h","i","d","r","o","g","e","n","a","s","e">> >>],
     [key |-> "CK", alts |-> <<
        <<"C","K">>,
        <<"C","r","e","a","t","i","n","e"," ","K","i","n","a","s","e">>,
        <<"C","P","K">>,
        <<"C","r","e","a","t","i","n","e"," ","P","h","o","s","p","h","o","k","i","n","a","s","e">>,
        <<"C","r","e","a","t","i","n"," ","K","i","n","a","s","e">>,
        <<"C","K","K">>,
        <<"C","r","e","t","i","n","e"," ","K","i","n","a","s","e">> >>] >>

Keys == [j \in DOMAIN patterns |-> patterns[j].key]

KeySet == {Keys[j] : j \in DOMAIN Keys}

\* A regex match object or None: Some([start, end]) with 0-based offsets.
Match(a, b) == Some([start |-> a, end |-> b])

\* One alternative tried at offset p from its element j on: the offset
\* after the match, or -1.  \s* is greedy and every \s* of the patterns is
\* followed by a literal that is no whitespace, so giving whitespace back
\* can never make the alternative match.
RECURSIVE MatchAlt(_, _, _, _)
MatchAlt(s, p, alt, j) ==
  IF j > Len(alt) THEN p
  ELSE IF alt[j] = "\\s*" THEN MatchAlt(s, p + Run(s, p, Whitespace), alt, j + 1)
  ELSE IF p < Len(s) /\ Fold(s[p + 1]) = Fold(alt[j]) THEN MatchAlt(s, p + 1, alt, j + 1)
  ELSE -1

\* Fault variant of MatchAlts: the closing \b is lost.
RECURSIVE MatchAltsOpenEnd(_, _, _, _)
MatchAltsOpenEnd(s, p, alts, a) ==
  IF a > Len(alts) THEN -1
  ELSE LET e == MatchAlt(s, p, alts[a], 1)
       IN  IF e # -1 THEN e
           ELSE MatchAltsOpenEnd(s, p, alts, a + 1)

\* (?:a1|a2|...)\b at offset p: the alternatives are tried in order from
\* the a-th, and one whose end is no word boundary is given up for the next.
RECURSIVE MatchAlts(_, _, _, _)
MatchAlts(s, p, alts, a) ==
  IF a > Len(alts) THEN -1
  ELSE LET e == MatchAlt(s, p, alts[a], 1)
       IN  IF e # -1 /\ IsBoundary(s, e) THEN e
           ELSE MatchAlts(s, p, alts, a + 1)

\* \b(?:a1|a2|...)\b matched with its first character at offset p
LabelAt(s, p, alts) ==
  IF IsBoundary(s, p) THEN MatchAlts(s, p, alts, 1) ELSE -1

\* pattern.search(clean_line): the leftmost offset at which the pattern
\* matches, from offset p on
RECURSIVE pattern_search(_, _, _)
pattern_search(s, p, alts) ==
  IF p > Len(s) THEN None
  ELSE LET e == LabelAt(s, p, alts)
       IN  IF e # -1 THEN Match(p, e) ELSE pattern_search(s, p + 1, alts)

\* [0-9]* followed by \b, from offset q with n digits taken first: greedy,
\* then one digit fewer at a time
RECURSIVE NumTail(_, _, _)
NumTail(s, q, n) ==
  IF IsBoundary(s, q + n) THEN q + n
  ELSE IF n = 0 THEN -1
  ELSE NumTail(s, q, n - 1)

\* [0-9]+[.,]?[0-9]*\b from offset p with n digits taken by [0-9]+ first:
\* [.,]? takes the separator when there is one and gives it back when the
\* rest fails, and then [0-9]+ gives back one digit at a time
RECURSIVE NumFrom(_, _, _)
NumFrom(s, p, n) ==
  IF n = 0 THEN -1
  ELSE LET q       == p + n
           withSep == IF q < Len(s) /\ s[q + 1] \in Separators
                      THEN NumTail(s, q + 1, DigitRun(s, q + 1))
                      ELSE -1
           noSep   == NumTail(s, q, DigitRun(s, q))
       IN  IF withSep # -1 THEN withSep
           ELSE IF noSep # -1 THEN noSep
           ELSE NumFrom(s, p, n - 1)

\* \b([0-9]+[.,]?[0-9]*)\b matched with its first character at offset p
NumAt(s, p) ==
  IF IsBoundary(s, p) THEN NumFrom(s, p, DigitRun(s, p)) ELSE -1

\* num_pat.search(clean_line, pos)
RECURSIVE num_pat_search(_, _)
num_pat_search(s, p) ==
  IF p > Len(s) THEN None
  ELSE LET e == NumAt(s, p)
       IN  IF e # -1 THEN Match(p, e) ELSE num_pat_search(s, p + 1)

\* [0-9]{2,3}/[0-9]{2,3} at offset p with n digits taken by the first
\* group: the slash must follow them, and the second group is greedy
BpWith(s, p, n) ==
  IF DigitRun(s, p) >= n /\ p + n < Len(s) /\ s[p + n + 1] = "/"
     /\ DigitRun(s, p + n + 1) >= 2
  THEN p + n + 1 + (IF DigitRun(s, p + n + 1) >= 3 THEN 3 ELSE 2)
  ELSE -1

\* ([0-9]{2,3}/[0-9]{2,3}) matched with its first character at offset p:
\* three digits first, then two
BpAt(s, p) ==
  IF BpWith(s, p, 3) # -1 THEN BpWith(s, p, 3) ELSE BpWith(s, p, 2)

\* bp_pat.search(clean_line, pos)
RECURSIVE bp_pat_search(_, _)
bp_pat_search(s, p) ==
  IF p > Len(s) THEN None
  ELSE LET e == BpAt(s, p)
       IN  IF e # -1 THEN Match(p, e) ELSE bp_pat_search(s, p + 1)

\* m.group(1): both value patterns are one group spanning the match
Group1(s, mt) == Slice(s, mt[1].start, mt[1].end)

\* value.replace(',', '.')
ReplaceComma(v) == [j \in DOMAIN v |-> IF v[j] = "," THEN "." ELSE v[j]]

\* ------------------------------------------------------------------------
\* Line cleaning (lines 57-58) and line splitting (line 36)
\* ------------------------------------------------------------------------

\* offset of the first ")" at or after offset p, or -1; "." of \(.*?\)
\* matches every character of a line (a line holds no "\n")
RECURSIVE FirstClose(_, _)
FirstClose(s, p) ==
  IF p >= Len(s) THEN -1
  ELSE IF s[p + 1] = ")" THEN p
  ELSE FirstClose(s, p + 1)

\* offset of the last ")" at or after offset p, or -1
RECURSIVE LastClose(_, _)
LastClose(s, p) ==
  IF p >= Len(s) THEN -1
  ELSE IF LastClose(s, p + 1) # -1 THEN LastClose(s, p + 1)
  ELSE IF s[p + 1] = ")" THEN p
  ELSE -1

\* Fault variant of SubParens: the greedy \(.*\), which removes up to the
\* last ")" of the line.
RECURSIVE SubParensGreedy(_, _)
SubParensGreedy(s, p) ==
  IF p >= Len(s) THEN <<>>
  ELSE IF s[p + 1] = "(" /\ LastClose(s, p + 1) # -1
       THEN SubParensGreedy(s, LastClose(s, p + 1) + 1)
       ELSE <<s[p + 1]>> \o SubParensGreedy(s, p + 1)

\* re.sub(r'\(.*?\)', '', line) from offset p: the leftmost "(" that has a
\* ")" after it is removed with everything up to the first such ")", and
\* the scan goes on behind it
RECURSIVE SubParens(_, _)
SubParens(s, p) ==
  IF p >= Len(s) THEN <<>>
  ELSE IF s[p + 1] = "(" /\ FirstClose(s, p + 1) # -1
       THEN SubParens(s, FirstClose(s, p + 1) + 1)
       ELSE <<s[p + 1]>> \o SubParens(s, p + 1)

\* re.sub(r'\s+', ' ', s) from offset p
RECURSIVE SubSpaces(_, _)
SubSpaces(s, p) ==
  IF p >= Len(s) THEN <<>>
  ELSE IF s[p + 1] \in Whitespace
       THEN <<" ">> \o SubSpaces(s, p + Run(s, p, Whitespace))
       ELSE <<s[p + 1]>> \o SubSpaces(s, p + 1)

\* str.strip(): whitespace removed at both ends
RECURSIVE Strip(_)
Strip(s) ==
  IF s = <<>> THEN s
  ELSE IF s[1] \in Whitespace THEN Strip(Tail(s))
  ELSE IF s[Len(s)] \in Whitespace THEN Strip(SubSeq(s, 1, Len(s) - 1))
  ELSE s

\* clean_line of lines 57-58
Clean(line) == Strip(SubSpaces(SubParens(line, 0), 0))

\* number of characters before the first line break of s from offset p
RECURSIVE LineLen(_, _)
LineLen(s, p) ==
  IF p >= Len(s) \/ s[p + 1] \in LineBreaks THEN 0 ELSE 1 + LineLen(s, p + 1)

\* text.splitlines() from offset p: a line ends at "\n", "\r" or "\r\n",
\* and no empty line follows the last line break
RECURSIVE splitlines(_, _)
splitlines(s, p) ==
  IF p >= Len(s) THEN <<>>
  ELSE LET n   == LineLen(s, p)
           q   == p + n
           brk == IF q >= Len(s) THEN 0
                  ELSE IF s[q + 1] = "\r" /\ q + 1 < Len(s) /\ s[q + 2] = "\n" THEN 2
                  ELSE 1
       IN  <<Slice(s, p, q)>> \o splitlines(s, q + brk)

\* ------------------------------------------------------------------------
\* The results dict.  A Python dict keeps its keys in insertion order, so
\* results is the sequence of its items [key, value], value an optional
\* string.
\* ------------------------------------------------------------------------

\* key in results
HasKey(res, key) == \E j \in DOMAIN res : res[j].key = key

\* results[key] (the key is present)
Get(res, key) == res[CHOOSE j \in DOMAIN res : res[j].key = key].value

\* results[key] = value: a present key keeps its place and takes the new
\* value, a new key goes to the end
DictSet(res, key, value) ==
  IF HasKey(res, key)
  THEN [j \in DOMAIN res |-> IF res[j].key = key
                             THEN [key |-> key, value |-> value] ELSE res[j]]
  ELSE Append(res, [key |-> key, value |-> value])

\* Fault variant of Unresolved: the guard of line 61 is lost, every key is
\* searched on every line.
UnresolvedAlways(res, key) == TRUE

\* line 61: if key not in results
Unresolved(res, key) == ~HasKey(res, key)

\* Fault variant of ExtractValue: the value is searched from the start of
\* the line instead of from the end of the label.
ExtractValueAnywhere(key, s, e) ==
  IF key = "Blood Pressure"
  THEN LET m_bp == bp_pat_search(s, 0)
       IN  IF m_bp # None THEN Some(Group1(s, m_bp)) ELSE None
  ELSE LET m_num == num_pat_search(s, 0)
       IN  IF m_num # None THEN Some(ReplaceComma(Group1(s, m_num))) ELSE None

\* lines 65-76 up to the assignment: the value found behind the label that
\* ended at offset e, or None
ExtractValue(key, s, e) ==
  IF key = "Blood Pressure"
  THEN LET m_bp == bp_pat_search(s, e)
       IN  IF m_bp # None THEN Some(Group1(s, m_bp)) ELSE None
  ELSE LET m_num == num_pat_search(s, e)
       IN  IF m_num # None THEN Some(ReplaceComma(Group1(s, m_num))) ELSE None

\* Fault variant of Resolve: the assignment stands outside the test of the
\* value match, so a label without a value stores None.
ResolveAlways(res, key, v) == DictSet(res, key, v)

\* if m_bp: / if m_num: results[key] = value
Resolve(res, key, v) ==
  IF v # None THEN DictSet(res, key, Some(v[1])) ELSE res

\* the items lines 79-81 add from the j-th key of patterns on: one for
\* each key that is not in results, in the order of patterns (the keys are
\* distinct, so adding one does not change the test of the next)
RECURSIVE MissingFrom(_, _)
MissingFrom(res, j) ==
  IF j > Len(patterns) THEN <<>>
  ELSE (IF HasKey(res, Keys[j]) THEN <<>> ELSE <<[key |-> Keys[j], value |-> None]>>)
       \o MissingFrom(res, j + 1)

\* Fault variant of FillMissing: the loop stops one key early.
FillMissingShort(res) ==
  LET all == MissingFrom(res, 1)
  IN  res \o (IF all # <<>> /\ all[Len(all)].key = Keys[Len(Keys)]
              THEN SubSeq(all, 1, Len(all) - 1) ELSE all)

\* Fault variant of FillMissing: the result is rebuilt key by key in the
\* order of patterns ({key: results.get(key) for key in patterns}).
FillMissingRebuilt(res) ==
  [n \in DOMAIN patterns |->
     [key |-> Keys[n],
      value |-> IF HasKey(res, Keys[n]) THEN Get(res, Keys[n]) ELSE None]]

\* lines 79-81: every key of patterns that is not in results is set to None
FillMissing(res) == res \o MissingFrom(res, 1)

\* ------------------------------------------------------------------------
\* Documents
\* ------------------------------------------------------------------------

\* the lines joined by "\n"
RECURSIVE Join(_)
Join(ls) ==
  IF ls = <<>> THEN <<>>
  ELSE IF Len(ls) = 1 THEN ls[1]
  ELSE ls[1] \o <<"\n">> \o Join(Tail(ls))

\* all sequences over S of length 0..n
SeqsUpTo(S, n) == UNION {[1..l -> S] : l \in 0..n}

MaxLines == 2

\* The lines the documents of Spec are made of.
GenLines ==
    \* 'Plasma Glucose: 95 mg/dL'
  { <<"P","l","a","s","m","a"," ","G","l","u","c","o","s","e",":"," ","9","5"," ","m","g","/","d","L">>,
    \* 'Blood Pressure 120/80 mmHg'
    <<"B","l","o","o","d"," ","P","r","e","s","s","u","r","e"," ","1","2","0","/","8","0"," ","m","m","H","g">>,
    \* 'Albumin: normal'
    <<"A","l","b","u","m","i","n",":"," ","n","o","r","m","a","l">>,
    \* 'Albumin 4.1 g/dL'
    <<"A","l","b","u","m","i","n"," ","4",".","1"," ","g","/","d","L">>,
    \* 'HbA1c 5.8%'
    <<"H","b","A","1","c"," ","5",".","8","%">>,
    \* 'HbA1c 6.9%'
    <<"H","b","A","1","c"," ","6",".","9","%">>,
    \* 'LDL 130'
    <<"L","D","L"," ","1","3","0">>,
    \* 'LD 220'
    <<"L","D"," ","2","2","0">>,
    \* 'CK 5'
    <<"C","K"," ","5">>,
    \* 'HDL 3'
    <<"H","D","L"," ","3">>,
    \* '95 Chol'
    <<"9","5"," ","C","h","o","l">>,
    \* 'Chol'
    <<"C","h","o","l">>,
    \* '95'
    <<"9","5">>,
    \* 'Trig 5 HDL 6'
    <<"T","r","i","g"," ","5"," ","H","D","L"," ","6">>,
    \* 'BP 5/3'
    <<"B","P"," ","5","/","3">>,
    \* 'BP 120'
    <<"B","P"," ","1","2","0">>,
    \* ''
    <<>>,
    \* 'Chol 7.5mg'
    <<"C","h","o","l"," ","7",".","5","m","g">>,
    \* 'BMI 7,2'
    <<"B","M","I"," ","7",",","2">>,
    \* 'TSH: n/a 2.5 mIU/L'
    <<"T","S","H",":"," ","n","/","a"," ","2",".","5"," ","m","I","U","/","L">> }


\* documents of at most MaxLines lines
GenTexts == {Join(ls) : ls \in SeqsUpTo(GenLines, MaxLines)}

\* ------------------------------------------------------------------------
\* extract_health_values(text) as a state machine
\* ------------------------------------------------------------------------

VARIABLES
  text,        \* the argument
  lines,       \* text.splitlines()
  i,           \* 1-based index of the line of the outer loop
  clean_line,  \* the cleaned line i
  k,           \* index into patterns of the key of the inner loop
  m,           \* the label match of the last pattern.search, or None
  results,     \* the results dict
  pc           \* "start", "line", "key", "done"

vars == <<text, lines, i, clean_line, k, m, results, pc>>

InitWith(T) ==
  /\ text \in T
  /\ lines = <<>>
  /\ i = 0
  /\ clean_line = <<>>
  /\ k = 0
  /\ m = None
  /\ results = <<>>
  /\ pc = "start"

Init == InitWith(GenTexts)

\* lines 36-55
Start ==
  /\ pc = "start"
  /\ lines' = splitlines(text, 0)
  /\ results' = <<>>
  /\ i' = 1
  /\ pc' = "line"
  /\ UNCHANGED <<text, clean_line, k, m>>

\* lines 56-58: the next line is cleaned
ReadLine ==
  /\ pc = "line"
  /\ i <= Len(lines)
  /\ clean_line' = Clean(lines[i])
  /\ k' = 1
  /\ pc' = "key"
  /\ UNCHANGED <<text, lines, i, m, results>>

\* lines 60-76: one key of the inner loop; behind the last key the outer
\* loop goes to the next line
ScanKey ==
  /\ pc = "key"
  /\ k <= Len(patterns)
  /\ IF ~Unresolved(results, Keys[k])
     THEN UNCHANGED <<m, results>>
     ELSE LET mt == pattern_search(clean_line, 0, patterns[k].alts)
          IN  /\ m' = mt
              /\ results' = IF mt # None
                            THEN Resolve(results, Keys[k],
                                         ExtractValue(Keys[k], clean_line, mt[1].end))
                            ELSE results
  /\ k' = k + 1
  /\ IF k = Len(patterns)
     THEN i' = i + 1 /\ pc' = "line"
     ELSE UNCHANGED <<i, pc>>
  /\ UNCHANGED <<text, lines, clean_line>>

\* lines 78-82: the missing keys are set to None and results is returned
Return ==
  /\ pc = "line"
  /\ i > Len(lines)
  /\ results' = FillMissing(results)
  /\ pc' = "done"
  /\ UNCHANGED <<text, lines, i, clean_line, k, m>>

\* lines 57-76 for one key on one line alone: the value that line gives
\* the j-th key when nothing was resolved before it
LineValue(j, line) ==
  LET s  == Clean(line)
      mt == pattern_search(s, 0, patterns[j].alts)
  IN  IF mt # None THEN ExtractValue(Keys[j], s, mt[1].end) ELSE None

\* whether the label of the j-th key matches the cleaned line
LabelMatches(j, line) == pattern_search(Clean(line), 0, patterns[j].alts) # None

Next == Start \/ ReadLine \/ ScanKey \/ Return

Spec == Init /\ [][Next]_vars


\* ------------------------------------------------------------------------
\* Properties
\* ------------------------------------------------------------------------

\* the keys of results in their order
KeyOrder(res) == [j \in DOMAIN res |-> res[j].key]

\* the first line that alone gives the j-th key a value, or 0
FirstEvidence(j) ==
  IF \E a \in DOMAIN lines : LineValue(j, lines[a]) # None
  THEN CHOOSE a \in DOMAIN lines :
         /\ LineValue(j, lines[a]) # None
         /\ \A b \in 1..(a - 1) : LineValue(j, lines[b]) = None
  ELSE 0

RegistryNames ==
  {"Plasma Glucose", "HbA1c", "HDL", "LDL", "Triglycerides", "Albumin",
   "Cholesterol", "BMI", "Blood Pressure", "TSH", "LDH", "CK"}

\* results holds each of the 12 registry names once and nothing else, no
\* value is the empty string, and a key no line gives a value is None
WellFormed ==
  /\ Len(results) = 12
  /\ {results[j].key : j \in DOMAIN results} = RegistryNames
  /\ \A j \in DOMAIN results : results[j].value # Some(<<>>)
  /\ \A j \in DOMAIN patterns :
       FirstEvidence(j) = 0 => Get(results, Keys[j]) = None

\* the number of steps left before the return
StepsLeft ==
  LET P == Len(patterns)
  IN  CASE pc = "start" -> 2 + (P + 1) * Len(splitlines(text, 0))
        [] pc = "line"  -> 1 + (P + 1) * (Len(lines) - i + 1)
        [] pc = "key"   -> 1 + (P + 1) * (Len(lines) - i) + (P - k + 1)
        [] OTHER        -> 0

\* a step is possible until the return
CanStep ==
  \/ pc = "start"
  \/ pc = "line" /\ i \in 1..(Len(lines) + 1)
  \/ pc = "key" /\ i \in 1..Len(lines) /\ k \in 1..Len(patterns)
  \/ pc = "done"

\* C1: for every input text the call runs to its return without an error
\* (every step brings the return nearer, and a step is possible until then),
\* and the mapping it returns has exactly the 12 registry names as keys,
\* each once, with None (never a missing key, never an empty string) for
\* every metric that was not resolved.
C1_TotalAndComplete ==
  /\ [][StepsLeft' < StepsLeft]_vars
  /\ [](StepsLeft >= 0 /\ CanStep)
  /\ [](pc = "done" => WellFormed)

\* C1 witness: the empty text has been processed and every metric is None.
C1_Witness ==
  /\ pc = "done"
  /\ text = <<>>
  /\ Len(results) = 12
  /\ \A j \in DOMAIN results : results[j].value = None

\* a resolved entry of results keeps its place and its value in a step
StaysResolved ==
  \A j \in DOMAIN results :
    results[j].value # None =>
      j \in DOMAIN results' /\ results'[j] = results[j]

\* the returned value of every key is the one its first evidence line
\* gives alone
FirstLineDecides ==
  pc = "done" =>
    \A j \in DOMAIN patterns :
      FirstEvidence(j) # 0 =>
        Get(results, Keys[j]) = LineValue(j, lines[FirstEvidence(j)])

\* C2: first-match-wins.  No step changes the value of a resolved metric,
\* and when lines i and j > i both carry label and value of a metric, i the
\* first such line, the returned value is the one line i alone gives.
C2_FirstMatchWins == [][StaysResolved]_vars /\ []FirstLineDecides

\* C2 witness: a metric has evidence on two lines with different values and
\* the returned value is the first line's.
C2_Witness ==
  /\ pc = "done"
  /\ \E j \in DOMAIN patterns : \E a, b \in DOMAIN lines :
       /\ a < b
       /\ LineValue(j, lines[a]) # None
       /\ LineValue(j, lines[b]) # None
       /\ LineValue(j, lines[a]) # LineValue(j, lines[b])
       /\ Get(results, Keys[j]) = LineValue(j, lines[a])

\* a step that scans a line whose label matches without a value leaves
\* the key unresolved
LabelOnlyKeepsUnresolved ==
  ( /\ pc = "key"
    /\ k <= Len(patterns)
    /\ Unresolved(results, Keys[k])
    /\ LabelMatches(k, lines[i])
    /\ LineValue(k, lines[i]) = None )
  => Unresolved(results', Keys[k])

\* a line with label and value behind lines with the label alone resolves
\* the key
LaterLineResolves ==
  pc = "done" =>
    \A j \in DOMAIN patterns : \A a, b \in DOMAIN lines :
      ( /\ a < b
        /\ LabelMatches(j, lines[a])
        /\ FirstEvidence(j) = b )
      => Get(results, Keys[j]) = LineValue(j, lines[b])

\* C3: a line on which a metric's label matches with no value of its shape
\* behind it leaves the metric unresolved, and the metric is tried again on
\* the later lines: the first later line with label and value resolves it.
C3_RetryAfterLabelOnly == [][LabelOnlyKeepsUnresolved]_vars /\ []LaterLineResolves

AlbuminNoValue == <<"A","l","b","u","m","i","n",":"," ","n","o","r","m","a","l">>

AlbuminValue == <<"A","l","b","u","m","i","n"," ","4",".","1"," ","g","/","d","L">>

\* C3 witness: "Albumin: normal" then "Albumin 4.1 g/dL" gives Albumin 4.1.
C3_Witness ==
  /\ pc = "done"
  /\ lines = <<AlbuminNoValue, AlbuminValue>>
  /\ Get(results, "Albumin") = Some(<<"4", ".", "1">>)

\* C4 as claimed: the returned mapping lists its keys in registry order.
C4_RegistryOrder == pc = "done" => KeyOrder(results) = Keys

\* the place of a key in the returned mapping: the resolved keys come
\* first, by the line that resolved them and then by registry order, and the
\* keys left None follow in registry order
Rank(j) ==
  IF FirstEvidence(j) # 0 THEN FirstEvidence(j) * (Len(patterns) + 1) + j
  ELSE (Len(lines) + 1) * (Len(patterns) + 1) + j

KeyIndex(key) == CHOOSE j \in DOMAIN Keys : Keys[j] = key

\* C4 (amended): the returned mapping lists the resolved metrics first, in
\* the order they were resolved (by line, and by registry order within a
\* line), and then the metrics left None in registry order.
C4_InsertionOrder ==
  pc = "done" =>
    LET rank == [j \in DOMAIN patterns |-> Rank(j)]
    IN  \A p \in 1..(Len(results) - 1) :
          rank[KeyIndex(results[p].key)] < rank[KeyIndex(results[p + 1].key)]

\* C4 witness: a later registry key was resolved on an earlier line than an
\* earlier registry key, and stands before it in the returned mapping.
C4_Witness ==
  /\ pc = "done"
  /\ \E p, q \in DOMAIN results :
       /\ p < q
       /\ results[p].value # None
       /\ results[q].value # None
       /\ KeyIndex(results[p].key) > KeyIndex(results[q].key)

\* v is one or more digits
AllDigits(v) == v # <<>> /\ \A j \in DOMAIN v : v[j] \in Digits

\* v is digits, or digits "." digits
IsDecimal(v) ==
  \/ AllDigits(v)
  \/ \E d \in DOMAIN v :
       /\ v[d] = "."
       /\ AllDigits(SubSeq(v, 1, d - 1))
       /\ AllDigits(SubSeq(v, d + 1, Len(v)))

\* v is 2-3 digits "/" 2-3 digits
IsRatio(v) ==
  \E d \in DOMAIN v :
    /\ v[d] = "/"
    /\ d - 1 \in 2..3 /\ AllDigits(SubSeq(v, 1, d - 1))
    /\ Len(v) - d \in 2..3 /\ AllDigits(SubSeq(v, d + 1, Len(v)))

\* C5: every value of results has the shape of its metric: Blood Pressure
\* is None or 2-3 digits "/" 2-3 digits, every other metric is None or
\* digits optionally followed by one "." and digits, with no "," and no
\* separator at its end.
C5_ValueShapes ==
  \A j \in DOMAIN results :
    \/ results[j].value = None
    \/ IF results[j].key = "Blood Pressure"
       THEN IsRatio(results[j].value[1])
       ELSE IsDecimal(results[j].value[1])

\* a synonym of the j-th key stands in s as a whole word, and v is read
\* from characters of s that start with a digit behind the end of that
\* synonym
LocalEvidence(j, s, v) ==
  \E a \in DOMAIN patterns[j].alts : \E st \in 0..Len(s) :
    LET e == MatchAlt(s, st, patterns[j].alts[a], 1)
    IN  /\ e # -1
        /\ IsBoundary(s, st)
        /\ IsBoundary(s, e)
        /\ \E p \in e..(Len(s) - 1) : \E q \in (p + 1)..Len(s) :
             /\ s[p + 1] \in Digits
             /\ v = IF Keys[j] = "Blood Pressure" THEN Slice(s, p, q)
                    ELSE ReplaceComma(Slice(s, p, q))

ScenarioA == <<"P","l","a","s","m","a"," ","G","l","u","c","o","s","e",":"," ","9","5"," ","m","g","/","d","L">>

ValueBeforeLabel == <<"9","5"," ","C","h","o","l">>

\* C8: a metric is resolved in the result only if one line holds a synonym
\* of that metric and, behind the end of that synonym on the same cleaned
\* line, the value; a value before the label, on another line, or on a line
\* without a synonym of the metric resolves nothing.  "Plasma Glucose: 95
\* mg/dL" gives Plasma Glucose 95 and None for every other metric.
C8_OnlyLocalEvidence ==
  pc = "done" =>
    /\ \A j \in DOMAIN results :
         results[j].value # None =>
           \E a \in DOMAIN lines :
             LocalEvidence(KeyIndex(results[j].key), Clean(lines[a]), results[j].value[1])
    /\ text = ScenarioA =>
         \A j \in DOMAIN results :
           results[j].value = IF results[j].key = "Plasma Glucose"
                              THEN Some(<<"9", "5">>) ELSE None

\* C8 witness: "95 Chol" then "Plasma Glucose: 95 mg/dL": the value before
\* the label resolves nothing, the value behind the label does.
C8_Witness ==
  /\ pc = "done"
  /\ lines = <<ValueBeforeLabel, ScenarioA>>
  /\ Get(results, "Cholesterol") = None
  /\ Get(results, "Plasma Glucose") = Some(<<"9", "5">>)

\* ------------------------------------------------------------------------
\* One synonym and one value on a line
\* ------------------------------------------------------------------------

ToUpper == [c \in Lowers |-> UpperSeq[CHOOSE j \in DOMAIN LowerSeq : LowerSeq[j] = c]]

UpperCase(s) == [j \in DOMAIN s |-> IF s[j] \in Lowers THEN ToUpper[s[j]] ELSE s[j]]

LowerCase(s) == [j \in DOMAIN s |-> Fold(s[j])]

\* the synonym an alternative of a pattern spells: \s* written as one space
Spelling(alt) == [j \in DOMAIN alt |-> IF alt[j] = "\\s*" THEN " " ELSE alt[j]]

\* the a-th synonym of the j-th key as catalogued, in upper and in lower case
SynonymCases(j, a) ==
  LET w == Spelling(patterns[j].alts[a])
  IN  {w, UpperCase(w), LowerCase(w)}

\* value tokens of the shape of the j-th key
ValueTokens(j) ==
  IF Keys[j] = "Blood Pressure"
  THEN {<<"1", "2", "0", "/", "8", "0">>, <<"9", "5", "/", "1", "1", "0">>}
  ELSE {<<"9", "5">>, <<"7", ",", "2">>, <<"7", ".", "2">>}

\* the lines "synonym value"
SynTexts ==
  UNION {UNION {{w \o <<" ">> \o v : w \in SynonymCases(j, a), v \in ValueTokens(j)}
                : a \in DOMAIN patterns[j].alts}
         : j \in DOMAIN patterns}

SynInit == InitWith(SynTexts)

SynSpec == SynInit /\ [][Next]_vars

\* C6: a line made of a catalogued synonym of a metric (in any letter
\* case, the dotted and parenthesised spellings included), a space and a
\* value token of the metric's shape resolves that metric to that value.
C6_EverySynonymResolves ==
  pc = "done" =>
    \A j \in DOMAIN patterns : \A a \in DOMAIN patterns[j].alts :
      \A w \in SynonymCases(j, a) : \A v \in ValueTokens(j) :
        text = w \o <<" ">> \o v =>
          Get(results, Keys[j]) = Some(ReplaceComma(v))

\* ------------------------------------------------------------------------
\* Synonyms glued to other characters
\* ------------------------------------------------------------------------

\* what stands directly before the synonym
Prefixes == {<<>>, <<"x">>, <<"5">>, <<"_">>, <<"-">>, <<"x", " ">>}

\* what stands directly behind the synonym
Suffixes == {<<>>, <<"x">>, <<"5">>, <<"_">>, <<"-">>, <<" ", "x">>}

LDL130 == <<"L","D","L"," ","1","3","0">>

LD220 == <<"L","D"," ","2","2","0">>

\* the lines "<prefix><synonym><suffix> 130/85", and the two lines of C7
WordTexts ==
  {LDL130, LD220} \cup
  UNION {UNION {{pre \o Spelling(patterns[j].alts[a]) \o post
                   \o <<" ", "1", "3", "0", "/", "8", "5">>
                 : pre \in Prefixes, post \in Suffixes}
                : a \in DOMAIN patterns[j].alts}
         : j \in DOMAIN patterns}

WordInit == InitWith(WordTexts)

WordSpec == WordInit /\ [][Next]_vars

\* offset p of s has a word character on exactly one side
WordEdge(s, p) ==
  LET left  == IF p = 0 THEN FALSE ELSE IsWord(s[p])
      right == IF p = Len(s) THEN FALSE ELSE IsWord(s[p + 1])
  IN  (left /\ ~right) \/ (right /\ ~left)

\* the label match a step finds starts and ends at a word edge of the
\* cleaned line: a match that starts or ends with a word character has no
\* word character next to it on that side
LabelIsWholeWord ==
  ( /\ pc = "key"
    /\ k <= Len(patterns)
    /\ Unresolved(results, Keys[k])
    /\ m' # None )
  => LET st == m'[1].start
         e  == m'[1].end
     IN  /\ st < e
         /\ WordEdge(clean_line, st)
         /\ WordEdge(clean_line, e)
         /\ IsWord(clean_line[st + 1]) => (st = 0 \/ ~IsWord(clean_line[st]))
         /\ IsWord(clean_line[e]) => (e = Len(clean_line) \/ ~IsWord(clean_line[e + 1]))

\* "LDL 130" gives LDL 130 and neither LDH nor CK; "LD 220" gives LDH 220
\* and not LDL
LdlLdExamples ==
  pc = "done" =>
    /\ text = LDL130 =>
         /\ Get(results, "LDL") = Some(<<"1", "3", "0">>)
         /\ Get(results, "LDH") = None
         /\ Get(results, "CK") = None
    /\ text = LD220 =>
         /\ Get(results, "LDH") = Some(<<"2", "2", "0">>)
         /\ Get(results, "LDL") = None

\* C7: a synonym never matches as part of a larger word: every label match
\* starts and ends at a word boundary of the cleaned line; "LDL 130"
\* resolves LDL and leaves LDH and CK absent, "LD 220" resolves LDH to 220
\* and leaves LDL absent.
C7_WholeWordOnly == [][LabelIsWholeWord]_vars /\ []LdlLdExamples

\* C7 witness: "LDL 130" has been processed: LDL is 130, LDH and CK are None.
C7_Witness ==
  /\ pc = "done"
  /\ text = LDL130
  /\ Get(results, "LDL") = Some(<<"1", "3", "0">>)
  /\ Get(results, "LDH") = None
  /\ Get(results, "CK") = None

\* ------------------------------------------------------------------------
\* What stands behind a Decimal label
\* ------------------------------------------------------------------------

MaxTail == 4

NumAlphabet == {" ", "5", "7", ".", ",", "m"}

\* the lines "Chol<tail>", the tail any string over NumAlphabet of at most
\* MaxTail characters
NumTexts == {<<"C", "h", "o", "l">> \o t : t \in SeqsUpTo(NumAlphabet, MaxTail)}

NumInit == InitWith(NumTexts)

NumSpec == NumInit /\ [][Next]_vars

\* offset of the first digit of s at or after offset p, or -1
RECURSIVE FirstDigit(_, _)
FirstDigit(s, p) ==
  IF p >= Len(s) THEN -1
  ELSE IF s[p + 1] \in Digits THEN p
  ELSE FirstDigit(s, p + 1)

\* the first maximal run digits [separator digits] of s at or after offset
\* p with "," replaced by ".", or None when no digit follows p
FirstDecimalRun(s, p) ==
  LET d == FirstDigit(s, p)
  IN  IF d = -1 THEN None
      ELSE LET q == d + DigitRun(s, d)
               e == IF q < Len(s) /\ s[q + 1] \in Separators /\ DigitRun(s, q + 1) > 0
                    THEN q + 1 + DigitRun(s, q + 1)
                    ELSE q
           IN  Some(ReplaceComma(Slice(s, d, e)))

\* C9: for a Decimal metric whose label ended at offset p, the value is the
\* first maximal run digits [separator digits] at or after p in the cleaned
\* line, "," replaced by ".", whatever characters adjoin the run, and there
\* is no value only when no digit follows p; "7,2" gives "7.2" and "7.2"
\* stays "7.2".
C9_FirstDigitRun ==
  pc = "done" =>
    LET s  == Clean(text)
        mt == pattern_search(s, 0, patterns[KeyIndex("Cholesterol")].alts)
    IN  mt # None =>
          Get(results, "Cholesterol") = FirstDecimalRun(s, mt[1].end)

\* ------------------------------------------------------------------------
\* Parentheses and whitespace
\* ------------------------------------------------------------------------

MaxLineLen == 5

CleanAlphabet == {"(", ")", " ", "\t", "5"}

HbA1cWithRange == <<"H","b","A","1","c"," ","(","r","e","f"," ","4","-","6","%",")"," ","5",".","8","%">>

HbA1cCleaned == <<"H","b","A","1","c"," ","5",".","8","%">>

\* the line of C10, and the lines "CK<tail>", the tail any string over
\* CleanAlphabet of at most MaxLineLen characters
CleanTexts ==
  {HbA1cWithRange} \cup
  {<<"C", "K">> \o t : t \in SeqsUpTo(CleanAlphabet, MaxLineLen)}

CleanInit == InitWith(CleanTexts)

CleanSpec == CleanInit /\ [][Next]_vars

\* the characters of s at the indices in Keep, in their order
Pick(s, Keep) ==
  LET tagged == [j \in DOMAIN s |-> <<j, s[j]>>]
      Kept(t) == t[1] \in Keep
      sel    == SelectSeq(tagged, Kept)
  IN  [n \in DOMAIN sel |-> sel[n][2]]

\* the indices of s outside every span from a "(" to the first ")" behind it
OutsideParens(s) ==
  {x \in DOMAIN s :
     ~ \E a \in 1..x : \E b \in x..Len(s) :
         /\ a < b
         /\ s[a] = "("
         /\ s[b] = ")"
         /\ \A c \in (a + 1)..(b - 1) : s[c] # ")"}

\* the indices of s that are no whitespace behind whitespace
RunHeads(s) ==
  {x \in DOMAIN s : ~(s[x] \in Whitespace /\ x > 1 /\ s[x - 1] \in Whitespace)}

\* the indices of s from its first to its last character that is no
\* whitespace
Inner(s) ==
  {x \in DOMAIN s :
     /\ \E a \in 1..x : s[a] \notin Whitespace
     /\ \E b \in x..Len(s) : s[b] \notin Whitespace}

\* the cleaned line as the claim describes it
CleanedAsDescribed(line) ==
  LET noParens == Pick(line, OutsideParens(line))
      oneSpace == Pick(noParens, RunHeads(noParens))
      spaces   == [j \in DOMAIN oneSpace |->
                     IF oneSpace[j] \in Whitespace THEN " " ELSE oneSpace[j]]
  IN  Pick(spaces, Inner(spaces))

\* C10: each line is cleaned before matching by removing every span from a
\* "(" to the first ")" behind it (a "(" with no ")" behind it stays), then
\* collapsing every whitespace run to one space and trimming both ends;
\* labels and values are read from the cleaned line only, so "HbA1c (ref
\* 4-6%) 5.8%" is cleaned to "HbA1c 5.8%" and gives HbA1c 5.8.
C10_CleanedLine ==
  /\ pc = "key" => clean_line = CleanedAsDescribed(lines[i])
  /\ (pc = "key" /\ lines[i] = HbA1cWithRange) => clean_line = HbA1cCleaned
  /\ (pc = "done" /\ Len(lines) = 1) =>
       \A j \in DOMAIN patterns :
         LET s  == CleanedAsDescribed(lines[1])
             mt == pattern_search(s, 0, patterns[j].alts)
         IN  Get(results, Keys[j]) =
               IF mt # None THEN ExtractValue(Keys[j], s, mt[1].end) ELSE None
  /\ (pc = "done" /\ text = HbA1cWithRange) =>
       Get(results, "HbA1c") = Some(<<"5", ".", "8">>)

\* C10 witness: "HbA1c (ref 4-6%) 5.8%" has been cleaned to "HbA1c 5.8%"
\* and HbA1c is 5.8.
C10_Witness ==
  /\ pc = "done"
  /\ text = HbA1cWithRange
  /\ clean_line = HbA1cCleaned
  /\ Get(results, "HbA1c") = Some(<<"5", ".", "8">>)

====
